---------------------------- MODULE Spec2Model ----------------------------
(***************************************************************************)
(* Model of the CSV ingestion job of dod-etl-script.                       *)
(*                                                                         *)
(* The repository holds two runnable variants of the same service:         *)
(*   src/etl_api_runner.py      ("etl")    download wrapper, find-then-    *)
(*                                         insert dedup, guarded listing   *)
(*   src/upload_from_space1.py  ("upload") direct get_object, plain insert *)
(* Both share the globals inserted_count, total_count, job_running, lock   *)
(* and start_time, the Flask handlers /start, /stop, /stats and the run    *)
(* loop process_all_csv_from_spaces executed by a threading.Thread.        *)
(*                                                                         *)
(* Strings that the code inspects (object keys, file bodies, CSV fields)   *)
(* are sequences of one-character tokens, so that endswith, basename,      *)
(* splitext, the UTF-8 decode and the CSV split are computed, not assumed. *)
(***************************************************************************)
EXTENDS Integers, Sequences, FiniteSets, Bags, TLC

(***************************************************************************)
(* Bounds of the model.                                                    *)
(***************************************************************************)
\* number of run-loop threads /start may create in one behaviour
MaxRuns == 2

(***************************************************************************)
(* String helpers (Python str / os.path semantics on token sequences).     *)
(***************************************************************************)
\* str.endswith(suffix)
EndsWith(s, suffix) ==
    /\ Len(s) >= Len(suffix)
    /\ SubSeq(s, Len(s) - Len(suffix) + 1, Len(s)) = suffix

\* str.rfind(ch) as a 1-based index, 0 when ch does not occur
RFind(s, ch) ==
    LET hits == {n \in 1..Len(s) : s[n] = ch}
    IN  IF hits = {} THEN 0 ELSE CHOOSE n \in hits : \A m \in hits : m <= n

\* os.path.basename(key): what follows the last "/"
basename(key) == SubSeq(key, RFind(key, "/") + 1, Len(key))

\* os.path.splitext(p)[0]: p up to its last dot, when that dot comes after the
\* last separator and after at least one character of the name that is no dot
splitext_root(p) ==
    LET sepIndex == RFind(p, "/")
        dotIndex == RFind(p, ".")
    IN  IF /\ dotIndex > sepIndex
           /\ \E n \in (sepIndex + 1)..(dotIndex - 1) : p[n] # "."
        THEN SubSeq(p, 1, dotIndex - 1)
        ELSE p

\* the pieces of s between occurrences of sep (always at least one piece)
RECURSIVE SplitOn(_, _)
SplitOn(s, sep) ==
    LET hits == {n \in 1..Len(s) : s[n] = sep}
    IN  IF hits = {} THEN <<s>>
        ELSE LET n == CHOOSE h \in hits : \A m \in hits : h <= m
             IN  <<SubSeq(s, 1, n - 1)>> \o SplitOn(SubSeq(s, n + 1, Len(s)), sep)

\* bytes.decode("utf-8") raises on a byte that is no valid UTF-8; the token
\* "xFF" stands for such a byte, every other token for an ASCII character
Decodable(body) == \A n \in 1..Len(body) : body[n] # "xFF"

\* the lines io.StringIO yields: split at newlines, no empty line after a
\* trailing newline and none for empty text
Lines(text) ==
    LET parts == SplitOn(text, "\n")
    IN  IF parts[Len(parts)] = <<>> THEN SubSeq(parts, 1, Len(parts) - 1) ELSE parts

\* list(csv.reader(...)): a blank line gives the empty row, any other line its
\* comma-separated fields (the modelled files use no quoting)
csv_rows(text) ==
    [n \in 1..Len(Lines(text)) |->
        IF Lines(text)[n] = <<>> THEN <<>> ELSE SplitOn(Lines(text)[n], ",")]


(***************************************************************************)
(* Configuration and the object store.                                     *)
(***************************************************************************)
Variants == {"etl", "upload"}
Modes == {"per_file", "fixed"}

\* COLLECTION_NAME of the environment, used when COLLECTION_MODE is not per_file
FIXED_COLLECTION == <<"u", "r", "l", "s">>

CsvSuffix == <<".", "c", "s", "v">>

\* objects the modelled buckets hold: key and body
obj_a == [Key  |-> <<"a", ".", "c", "s", "v">>,
          Body |-> <<"1", ",", "x", "\n", "b", "\n", "1", ",", "w", "\n">>]
obj_b == [Key  |-> <<"d", "/", "b", ".", "c", "s", "v">>,
          Body |-> <<"1", ",", "z">>]
obj_n == [Key  |-> <<"n", ".", "t", "x", "t">>,
          Body |-> <<"h", "i">>]
obj_x == [Key  |-> <<"x", ".", "c", "s", "v">>,
          Body |-> <<"2", ",", "xFF">>]
\* two files that share url_id 1: a.csv with url_ids 1 and 2, b.csv with 1
obj_a12 == [Key  |-> <<"a", ".", "c", "s", "v">>,
            Body |-> <<"1", ",", "x", "\n", "2", ",", "y", "\n">>]
obj_b1 == [Key  |-> <<"b", ".", "c", "s", "v">>,
           Body |-> <<"1", ",", "z", "\n">>]

\* what list_objects_v2 can return as Contents, in listing order; the empty
\* listing is the response that has no Contents entry
Buckets == { <<obj_a, obj_n, obj_x, obj_b>>, <<obj_n>>, <<>> }

\* the bucket of two well-formed files with a shared url_id
two_files == <<obj_a12, obj_b1>>

\* db[collection_name] for every name the run loop can form
collection_name_of(key, mode) ==
    IF mode = "per_file" THEN splitext_root(basename(key)) ELSE FIXED_COLLECTION

Collections ==
    {collection_name_of(o.Key, m) : o \in {obj_a, obj_b, obj_n, obj_x, obj_a12, obj_b1},
                                      m \in Modes}

Threads == 1..MaxRuns

VARIABLES
    Variant,         \* which of the two scripts the process runs
    MODE,            \* COLLECTION_MODE
    bucket,          \* Contents of SPACES_BUCKET under SPACES_PREFIX
    inserted_count,  \* global
    total_count,     \* global
    job_running,     \* global
    lock,            \* threading.Lock: 0 when free, else the holding thread
    start_time,      \* global, 0 for None
    now,             \* time.time(), advanced at every reading that is stored
    db,              \* collection name -> bag of documents
    thr,             \* the Thread objects /start created, by creation order
    resp,            \* body of the last response of /start or /stop
    stats_pc,        \* position of the /stats handler
    stats_view,      \* what the /stats handler has read so far
    held             \* history, read by no code: the combinations of
                     \* (inserted_count, total_count, job_running) the globals
                     \* have held so far; empty when no history is kept

vars == <<Variant, MODE, bucket, inserted_count, total_count, job_running, lock,
          start_time, now, db, thr, resp, stats_pc, stats_view, held>>

config == <<Variant, MODE, bucket>>

\* a Thread that /start has not created yet
unborn == [pc |-> "unborn", csv_files |-> <<>>, k |-> 0, rows |-> <<>>, i |-> 0,
           loaded |-> 0, stopped |-> 0]

no_view == [inserted |-> 0, total |-> 0]

\* the process after module load, serving a bucket of B
loaded_with(B) ==
    /\ Variant \in Variants
    /\ MODE \in Modes
    /\ bucket \in B
    /\ inserted_count = 0
    /\ total_count = 0
    /\ job_running = FALSE
    /\ lock = 0
    /\ start_time = 0
    /\ now = 1
    /\ db = [c \in Collections |-> EmptyBag]
    /\ thr = [t \in Threads |-> unborn]
    /\ resp = ""
    /\ stats_pc = "idle"
    /\ stats_view = no_view

\* Spec keeps no history of the globals
Init == loaded_with(Buckets) /\ held = {}

(***************************************************************************)
(* The document store.                                                     *)
(***************************************************************************)
\* doc = {"url_id": row[0], "input_url": row[1], "status": "pending"}
doc_of(row) == [url_id |-> row[1], input_url |-> row[2], status |-> "pending"]

\* the documents of a collection whose url_id is u, with multiplicity
copies_of(coll, u) ==
    LET hits == {d \in BagToSet(coll) : d.url_id = u}
        RECURSIVE sum(_)
        sum(S) == IF S = {} THEN 0
                  ELSE LET d == CHOOSE e \in S : TRUE
                       IN  CopiesIn(d, coll) + sum(S \ {d})
    IN  sum(hits)

\* collection.find_one({"url_id": u}) returns a document
find_one(coll, u) == \E d \in BagToSet(coll) : d.url_id = u

\* collection.insert_one(doc)
insert_one(coll, d) == coll (+) SetToBag({d})

(***************************************************************************)
(* Steps of one run-loop thread, as functions of its record r.             *)
(***************************************************************************)
\* (variant for C19: the listing taken as it is, without the test of the
\* suffix)
every_key_of(contents) == [n \in 1..Len(contents) |-> contents[n].Key]

\* csv_files = [obj["Key"] for obj in objects["Contents"] if obj["Key"].endswith(".csv")]
csv_files_of(contents) ==
    LET kept == SelectSeq(contents, LAMBDA o : EndsWith(o.Key, CsvSuffix))
    IN  [n \in 1..Len(kept) |-> kept[n].Key]

\* the body get_object returns for a listed key
body_of(key) == (CHOOSE o \in {bucket[n] : n \in 1..Len(bucket)} : o.Key = key).Body

\* (variant for C12: COLLECTION_MODE ignored, every file goes to the fixed
\* collection)
collection_name_ignores_mode(r) == collection_name_of(r.csv_files[r.k], "fixed")

\* collection_name of the file the thread is in
collection_name(r) == collection_name_of(r.csv_files[r.k], MODE)

\* positions inside the processing of one file
FilePcs == {"download", "count_load", "count_store", "find", "insert", "acquire",
            "incr"}
\* positions inside the row loop of insert_csv_from_stream
RowPcs == {"find", "insert", "acquire", "incr"}
\* positions of a thread that exists and has not returned or died
ActivePcs == FilePcs \cup {"start", "time", "list", "finish"}

\* (variant for C20: a file loop that tests job_running before each file)
next_file_unless_stopped(r) ==
    IF job_running /\ r.k < Len(r.csv_files)
    THEN [r EXCEPT !.pc = "download", !.k = @ + 1, !.rows = <<>>, !.i = 0]
    ELSE [r EXCEPT !.pc = "finish", !.k = 0, !.rows = <<>>, !.i = 0]

\* `for key in csv_files`: the next iteration, or the code after the loop
next_file(r) ==
    IF r.k < Len(r.csv_files)
    THEN [r EXCEPT !.pc = "download", !.k = @ + 1, !.rows = <<>>, !.i = 0]
    ELSE [r EXCEPT !.pc = "finish", !.k = 0, !.rows = <<>>, !.i = 0]

\* an exception that nothing in the thread catches ends the thread where it is
dies(r) == [r EXCEPT !.pc = "died"]

\* the target returns
returns(r) == [unborn EXCEPT !.pc = "done"]

\* the call that starts a row's try block: find_one in etl (line 109),
\* insert_one in upload (line 66)
first_store_call == IF Variant = "etl" THEN "find" ELSE "insert"

\* `if len(row) < 2: continue`
malformed(row) == Len(row) < 2

\* `for i, row in enumerate(rows, start=1)` from row i on: rows that are
\* malformed are passed over, the first other row gets its document built and
\* its store call issued; after the last row the function returns to the file
\* loop.  These steps touch nothing but the thread's own locals.
RECURSIVE row_loop(_, _)
row_loop(r, i) ==
    IF i > Len(r.rows) THEN next_file(r)
    ELSE IF malformed(r.rows[i]) THEN row_loop(r, i + 1)
    ELSE [r EXCEPT !.pc = first_store_call, !.i = i]

\* download_with_progress returned None (etl: the except of lines 79-81, then
\* `if buffer` fails); get_object raised inside the loop (upload: line 96)
after_download_error(r) == IF Variant = "etl" THEN next_file(r) ELSE dies(r)

\* stream.read().decode("utf-8") raised (etl: caught at lines 93-95, the
\* function returns; upload: line 57, not caught)
after_parse_error(r) == IF Variant = "etl" THEN next_file(r) ELSE dies(r)

\* the body was fetched: decode and parse it
after_download(r, body) ==
    IF Decodable(body)
    THEN [r EXCEPT !.pc = "count_load", !.rows = csv_rows(body)]
    ELSE after_parse_error(r)

\* (variant for C10: the exception leaves the row loop, as it would without
\* the try of lines 107-116)
after_row_error_leaves_file(r) == next_file(r)

\* find_one or insert_one raised: the except of the row's try logs it
after_row_error(r) == row_loop(r, r.i + 1)

\* the result of find_one decides between insert_one and the duplicate branch
after_find(r, found) ==
    IF found THEN row_loop(r, r.i + 1) ELSE [r EXCEPT !.pc = "insert"]

\* list_objects_v2 raised (etl: lines 134-137; upload: line 81, not caught)
after_listing_error(r) == IF Variant = "etl" THEN returns(r) ELSE dies(r)

\* job_running after list_objects_v2 raised
running_after_listing_error == IF Variant = "etl" THEN FALSE ELSE job_running

\* total_count after `total_count += len(rows)` stores its sum
counted(loaded, rows) == loaded + Len(rows)

(***************************************************************************)
(* process_all_csv_from_spaces, one action per access to shared state or   *)
(* external call.  t is the thread that takes the step.                    *)
(***************************************************************************)
globals == <<inserted_count, total_count, job_running, lock, start_time, now>>
handlers == <<resp, stats_pc, stats_view>>

\* held after a step: where history is kept, the combination the step leaves
\* is added
recorded ==
    IF held = {} THEN {}
    ELSE held \cup {<<inserted_count', total_count', job_running'>>}

\* job_running = True
set_running(t) ==
    /\ thr[t].pc = "start"
    /\ job_running' = TRUE
    /\ thr' = [thr EXCEPT ![t].pc = "time"]
    /\ UNCHANGED <<config, inserted_count, total_count, lock, start_time, now, db,
                   handlers>>
    /\ held' = recorded

\* start_time = time.time()
set_start_time(t) ==
    /\ thr[t].pc = "time"
    /\ start_time' = now
    /\ now' = now + 1
    /\ thr' = [thr EXCEPT ![t].pc = "list"]
    /\ UNCHANGED <<config, held, inserted_count, total_count, job_running, lock,
                   db, handlers>>

\* list_objects_v2 answered with Contents: build csv_files, enter the loop
list_objects(t) ==
    /\ thr[t].pc = "list"
    /\ bucket # <<>>
    /\ thr' = [thr EXCEPT ![t] =
                 next_file([thr[t] EXCEPT !.csv_files = csv_files_of(bucket)])]
    /\ UNCHANGED <<config, globals, held, db, handlers>>

\* list_objects_v2 answered without Contents: job_running = False; return
list_no_contents(t) ==
    /\ thr[t].pc = "list"
    /\ bucket = <<>>
    /\ job_running' = FALSE
    /\ thr' = [thr EXCEPT ![t] = returns(thr[t])]
    /\ UNCHANGED <<config, inserted_count, total_count, lock, start_time, now, db,
                   handlers>>
    /\ held' = recorded

\* list_objects_v2 raised
list_fails(t) ==
    /\ thr[t].pc = "list"
    /\ job_running' = running_after_listing_error
    /\ thr' = [thr EXCEPT ![t] = after_listing_error(thr[t])]
    /\ UNCHANGED <<config, inserted_count, total_count, lock, start_time, now, db,
                   handlers>>
    /\ held' = recorded

\* the object was fetched; insert_csv_from_stream decodes and parses it
download(t) ==
    /\ thr[t].pc = "download"
    /\ thr' = [thr EXCEPT ![t] =
                 after_download(thr[t], body_of(thr[t].csv_files[thr[t].k]))]
    /\ UNCHANGED <<config, globals, held, db, handlers>>

\* head_object, get_object or a read of the body raised
download_fails(t) ==
    /\ thr[t].pc = "download"
    /\ thr' = [thr EXCEPT ![t] = after_download_error(thr[t])]
    /\ UNCHANGED <<config, globals, held, db, handlers>>

\* total_count += len(rows), the load of the global ...
count_load(t) ==
    /\ thr[t].pc = "count_load"
    /\ thr' = [thr EXCEPT ![t].pc = "count_store", ![t].loaded = total_count]
    /\ UNCHANGED <<config, globals, held, db, handlers>>

\* ... and the store of the sum, no lock held; then the row loop is entered
count_store(t) ==
    /\ thr[t].pc = "count_store"
    /\ total_count' = counted(thr[t].loaded, thr[t].rows)
    /\ thr' = [thr EXCEPT ![t] = row_loop([thr[t] EXCEPT !.loaded = 0], 1)]
    /\ UNCHANGED <<config, inserted_count, job_running, lock, start_time, now, db,
                   handlers>>
    /\ held' = recorded

\* collection.find_one({"url_id": doc["url_id"]}) returned
find(t) ==
    /\ thr[t].pc = "find"
    /\ thr' = [thr EXCEPT ![t] =
                 after_find(thr[t], find_one(db[collection_name(thr[t])],
                                             thr[t].rows[thr[t].i][1]))]
    /\ UNCHANGED <<config, globals, held, db, handlers>>

\* find_one raised
find_fails(t) ==
    /\ thr[t].pc = "find"
    /\ thr' = [thr EXCEPT ![t] = after_row_error(thr[t])]
    /\ UNCHANGED <<config, globals, held, db, handlers>>

\* collection.insert_one(doc) returned
insert(t) ==
    /\ thr[t].pc = "insert"
    /\ db' = [db EXCEPT ![collection_name(thr[t])] =
                 insert_one(@, doc_of(thr[t].rows[thr[t].i]))]
    /\ thr' = [thr EXCEPT ![t].pc = "acquire"]
    /\ UNCHANGED <<config, globals, held, handlers>>

\* insert_one raised; the document is taken not to be stored
insert_fails(t) ==
    /\ thr[t].pc = "insert"
    /\ thr' = [thr EXCEPT ![t] = after_row_error(thr[t])]
    /\ UNCHANGED <<config, globals, held, db, handlers>>

\* with lock: enter
acquire(t) ==
    /\ thr[t].pc = "acquire"
    /\ lock = 0
    /\ lock' = t
    /\ thr' = [thr EXCEPT ![t].pc = "incr"]
    /\ UNCHANGED <<config, held, inserted_count, total_count, job_running,
                   start_time, now, db, handlers>>

\* inserted_count += 1, and the lock is released on leaving the with block
incr(t) ==
    /\ thr[t].pc = "incr"
    /\ inserted_count' = inserted_count + 1
    /\ lock' = 0
    /\ thr' = [thr EXCEPT ![t] = row_loop(thr[t], thr[t].i + 1)]
    /\ UNCHANGED <<config, total_count, job_running, start_time, now, db, handlers>>
    /\ held' = recorded

\* after the loop: job_running = False; return
finish(t) ==
    /\ thr[t].pc = "finish"
    /\ job_running' = FALSE
    /\ thr' = [thr EXCEPT ![t] = returns(thr[t])]
    /\ UNCHANGED <<config, inserted_count, total_count, lock, start_time, now, db,
                   handlers>>
    /\ held' = recorded

process_all_csv_from_spaces(t) ==
    \/ set_running(t)
    \/ set_start_time(t)
    \/ list_objects(t)
    \/ list_no_contents(t)
    \/ list_fails(t)
    \/ download(t)
    \/ download_fails(t)
    \/ count_load(t)
    \/ count_store(t)
    \/ find(t)
    \/ find_fails(t)
    \/ insert(t)
    \/ insert_fails(t)
    \/ acquire(t)
    \/ incr(t)
    \/ finish(t)

(***************************************************************************)
(* The Flask handlers.                                                     *)
(***************************************************************************)
\* the Thread object start_job creates: the first one not created yet
new_thread ==
    CHOOSE t \in Threads :
        thr[t].pc = "unborn" /\ \A u \in 1..(t - 1) : thr[u].pc # "unborn"

\* (variant for C4: start_job without the test of job_running)
started_threads_unguarded(running) ==
    IF \E t \in Threads : thr[t].pc = "unborn"
    THEN [thr EXCEPT ![new_thread].pc = "start"]
    ELSE thr

\* what start_job does to the threads: nothing when job_running, else
\* Thread(target=process_all_csv_from_spaces).start()
started_threads(running) ==
    IF running THEN thr ELSE [thr EXCEPT ![new_thread].pc = "start"]

\* the body start_job returns
start_response(running) == IF running THEN "already running" ELSE "started"

\* GET /start (enabled while the model has a thread left to create).  The test
\* of job_running and Thread.start() are one step: the new thread changes
\* nothing before its own first step, set_running, so a step between the two
\* could as well come after the handler.
start_job ==
    /\ job_running \/ \E t \in Threads : thr[t].pc = "unborn"
    /\ thr' = started_threads(job_running)
    /\ resp' = start_response(job_running)
    /\ UNCHANGED <<config, globals, held, db, stats_pc, stats_view>>

\* the file each loop is in when /stop is served (history, read by no code)
stop_noted(r) ==
    IF r.pc \in FilePcs /\ r.stopped = 0 THEN [r EXCEPT !.stopped = r.k] ELSE r

\* GET /stop
stop_job ==
    /\ job_running' = FALSE
    /\ thr' = [t \in Threads |-> stop_noted(thr[t])]
    /\ resp' = "stop signal sent"
    /\ UNCHANGED <<config, inserted_count, total_count, lock, start_time, now, db,
                   stats_pc, stats_view>>
    /\ held' = recorded

\* GET /stats: the handler reads inserted_count, then total_count, then
\* job_running for the fields of its response, each in its own bytecode, no
\* lock held, and responds.  It writes no global.  The host metrics, the
\* uptime and the progress string are further reads that change nothing.
stats_read_inserted ==
    /\ stats_pc = "idle"
    /\ stats_view' = [stats_view EXCEPT !.inserted = inserted_count]
    /\ stats_pc' = "total"
    /\ UNCHANGED <<config, globals, held, db, thr, resp>>

stats_read_total ==
    /\ stats_pc = "total"
    /\ stats_view' = [stats_view EXCEPT !.total = total_count]
    /\ stats_pc' = "running"
    /\ UNCHANGED <<config, globals, held, db, thr, resp>>

stats_respond ==
    /\ stats_pc = "running"
    /\ stats_view' = no_view
    /\ stats_pc' = "idle"
    /\ UNCHANGED <<config, globals, held, db, thr, resp>>

stats == stats_read_inserted \/ stats_read_total \/ stats_respond

Next ==
    \/ \E t \in Threads : process_all_csv_from_spaces(t)
    \/ start_job
    \/ stop_job
    \/ stats

Spec == Init /\ [][Next]_vars

(***************************************************************************)
(* The same program driven by one well-behaved client: no backend call     *)
(* fails, /stop is never requested, and /start is requested only when no   *)
(* run loop exists.                                                        *)
(***************************************************************************)
quiet == \A t \in Threads : thr[t].pc \notin ActivePcs

seq_loop_step(t) ==
    \/ set_running(t)
    \/ set_start_time(t)
    \/ list_objects(t)
    \/ list_no_contents(t)
    \/ download(t)
    \/ count_load(t)
    \/ count_store(t)
    \/ find(t)
    \/ insert(t)
    \/ acquire(t)
    \/ incr(t)
    \/ finish(t)

seq_start == quiet /\ start_job

NextSeq ==
    \/ \E t \in Threads : seq_loop_step(t)
    \/ seq_start
    \/ stats

\* SpecSeq also serves the bucket of two files and keeps the history of the
\* globals, which starts with the values of module load
InitSeq ==
    /\ loaded_with(Buckets \cup {two_files})
    /\ held = {<<inserted_count, total_count, job_running>>}

SpecSeq == InitSeq /\ [][NextSeq]_vars

(***************************************************************************)
(* Vocabulary of the properties.                                           *)
(***************************************************************************)
\* a run loop that has executed `job_running = True` and not yet ended
in_run(t) == thr[t].pc \in ActivePcs \ {"start"}

\* R and M of a parsed file
well_formed_rows(rows) == Cardinality({n \in 1..Len(rows) : ~malformed(rows[n])})
malformed_rows(rows) == Cardinality({n \in 1..Len(rows) : malformed(rows[n])})

\* the rows after row i that make a document
later_documents(r) == {n \in (r.i + 1)..Len(r.rows) : ~malformed(r.rows[n])}

\* the rows one failure-free run over the bucket counts into total_count
RECURSIVE rows_counted(_)
rows_counted(keys) ==
    IF keys = <<>> THEN 0
    ELSE (IF Decodable(body_of(Head(keys))) THEN Len(csv_rows(body_of(Head(keys)))) ELSE 0)
         + rows_counted(Tail(keys))

(***************************************************************************)
(* C1.  At most one run loop is active at any time, under any interleaving *)
(* of /start, /stop, /stats and run-loop steps.                            *)
(*                                                                         *)
(* Violated: start_job tests job_running, which the new thread sets only   *)
(* when it runs (line 128) and which stop_job clears while the loop goes   *)
(* on, so a second /start creates a second loop.                           *)
(***************************************************************************)
C1_SingleRunLoop == Cardinality({t \in Threads : in_run(t)}) <= 1

(***************************************************************************)
(* C2.  After /stop is served while the run loop is in file k, the loop    *)
(* begins no later file: it is in file k until it leaves the file loop.    *)
(*                                                                         *)
(* Violated: `for key in csv_files` never reads job_running.               *)
(***************************************************************************)
C2_StopHaltsAfterCurrentFile ==
    \A t \in Threads :
        (thr[t].stopped > 0 /\ thr[t].pc \in FilePcs) => thr[t].k = thr[t].stopped

(***************************************************************************)
(* C3.  A run started while no other run loop exists finds the counters    *)
(* reset: from the moment it has set job_running until it fetches its      *)
(* first file, inserted_count = 0 and total_count = 0.  This is every      *)
(* run, the second in the process included.                                *)
(*                                                                         *)
(* Violated: nothing ever assigns 0 to the counters after module load.     *)
(***************************************************************************)
C3_StartResetsCounters ==
    \A t \in Threads :
        ( /\ thr[t].pc \in {"time", "list"} \/ (thr[t].pc = "download" /\ thr[t].k = 1)
          /\ \A u \in Threads \ {t} : thr[u].pc \notin ActivePcs )
        => (inserted_count = 0 /\ total_count = 0)

(***************************************************************************)
(* C4.  /start served while job_running is True answers "already running", *)
(* creates no thread and leaves job_running, inserted_count, total_count,  *)
(* start_time, the lock and the store as they were.                        *)
(***************************************************************************)
C4_StartWhileRunningIsNoOp ==
    [][ (start_job /\ job_running) =>
            /\ resp' = "already running"
            /\ UNCHANGED <<thr, job_running, inserted_count, total_count,
                           start_time, lock, db>> ]_vars

\* /start has answered "already running" while a loop was inside a file
C4_Witness ==
    /\ resp = "already running"
    /\ job_running
    /\ \E t \in Threads : thr[t].pc \in FilePcs

(***************************************************************************)
(* C5.  Processing a file with R rows of at least 2 fields and M rows of   *)
(* fewer raises total_count by exactly R+M, the store of line 97, and      *)
(* raises inserted_count once per row at most and only for a row of at     *)
(* least 2 fields; no document is stored for a malformed row.              *)
(*                                                                         *)
(* Violated through C1: two run loops load total_count, then both store    *)
(* their sum, and the first store is lost.                                 *)
(***************************************************************************)
C5_RowCounting ==
    [][ \A t \in Threads :
          /\ count_store(t) =>
                total_count' = total_count + well_formed_rows(thr[t].rows)
                                           + malformed_rows(thr[t].rows)
          /\ insert(t) => /\ ~malformed(thr[t].rows[thr[t].i])
                          /\ inserted_count' = inserted_count
          /\ incr(t) => /\ ~malformed(thr[t].rows[thr[t].i])
                        /\ inserted_count' = inserted_count + 1
                        /\ thr'[t].pc \in RowPcs => thr'[t].i > thr[t].i
          /\ (~insert(t) /\ ~incr(t)) =>
                (thr'[t] # thr[t] => (db' = db /\ inserted_count' = inserted_count))
      ]_vars

(***************************************************************************)
(* C6.  Two rows with the same url_id, processed one after the other for   *)
(* the same collection, leave exactly one document with that url_id: a     *)
(* row whose insert_one has returned is the only document of its url_id.   *)
(* Checked with one client and no failing call (SpecSeq).                  *)
(*                                                                         *)
(* Violated by upload_from_space1.py, which calls insert_one on every row  *)
(* without a lookup.                                                       *)
(***************************************************************************)
C6_DedupInSequence ==
    \A t \in Threads :
        thr[t].pc \in {"acquire", "incr"} =>
            copies_of(db[collection_name(thr[t])], thr[t].rows[thr[t].i][1]) = 1

(***************************************************************************)
(* C7.  A second run over the same bucket, started after the first has     *)
(* completed and with its documents still stored, ends with                *)
(* inserted_count = 0 and total_count equal to the first run's total.      *)
(* Checked with one client and no failing call (SpecSeq), where the first  *)
(* run's total is the number of rows of the bucket's decodable CSV files.  *)
(*                                                                         *)
(* Violated through C3: the counters carry on from the first run.          *)
(***************************************************************************)
C7_RerunInsertsNothing ==
    (thr[1].pc = "done" /\ thr[2].pc = "done") =>
        /\ inserted_count = 0
        /\ total_count = rows_counted(csv_files_of(bucket))

(***************************************************************************)
(* C8.  When list_objects_v2 raises, the run ends at once: the thread is   *)
(* over, job_running is False, and inserted_count, total_count and the     *)
(* store are as they were.                                                 *)
(*                                                                         *)
(* Violated by upload_from_space1.py: the exception of line 81 is caught   *)
(* nowhere, the thread ends and job_running stays True.                    *)
(***************************************************************************)
C8_ListingFailureEndsRun ==
    [][ \A t \in Threads :
          list_fails(t) =>
            /\ thr'[t].pc \notin ActivePcs
            /\ ~job_running'
            /\ UNCHANGED <<inserted_count, total_count, db>> ]_vars

(***************************************************************************)
(* C9.  When the download of a file fails, or its bytes are no UTF-8, the  *)
(* counters and the store are as they were and the loop goes on with the   *)
(* next listed file (or to the code after the loop).                       *)
(*                                                                         *)
(* Violated by upload_from_space1.py: get_object (line 96) and decode      *)
(* (line 57) raise through the loop and end the thread.                    *)
(***************************************************************************)
C9_FileFailureNonFatal ==
    [][ \A t \in Threads :
          ( \/ download_fails(t)
            \/ download(t) /\ ~Decodable(body_of(thr[t].csv_files[thr[t].k])) )
          => /\ thr'[t] = next_file(thr[t])
             /\ UNCHANGED <<inserted_count, total_count, db>> ]_vars

(***************************************************************************)
(* C10.  When find_one or insert_one raises for a row, inserted_count and  *)
(* the store are as they were and the thread stays in the same file: it    *)
(* goes on with the next row that makes a document, and leaves the file    *)
(* only when no such row is left.                                          *)
(***************************************************************************)
C10_RowFaultContinues ==
    [][ \A t \in Threads :
          (find_fails(t) \/ insert_fails(t)) =>
            /\ UNCHANGED <<inserted_count, total_count, db>>
            /\ IF later_documents(thr[t]) # {}
               THEN /\ thr'[t].pc = first_store_call
                    /\ thr'[t].k = thr[t].k
                    /\ thr'[t].rows = thr[t].rows
                    /\ thr'[t].i \in later_documents(thr[t])
                    /\ \A n \in later_documents(thr[t]) : thr'[t].i <= n
               ELSE thr'[t] = next_file(thr[t]) ]_vars

\* a store call is being made for a row although an earlier row of the same
\* file, which makes a document, has none of its url_id in the collection:
\* that earlier row failed, and the rows after it are processed
C10_Witness ==
    \E t \in Threads :
        /\ thr[t].pc \in RowPcs
        /\ \A u \in Threads \ {t} : thr[u].pc = "unborn"
        /\ \E n \in 1..(thr[t].i - 1) :
              /\ ~malformed(thr[t].rows[n])
              /\ ~find_one(db[collection_name(thr[t])], thr[t].rows[n][1])

(***************************************************************************)
(* C11.  inserted_count and total_count never decrease: every step of a    *)
(* run loop and every step of /start, /stop and /stats leaves each counter *)
(* at least at its previous value.                                         *)
(*                                                                         *)
(* Violated for total_count: line 97 stores the value loaded earlier plus  *)
(* len(rows), which with the two run loops of C1 can be less than what the *)
(* other loop has stored in between.                                       *)
(***************************************************************************)
C11_CountersNeverDecrease ==
    [][inserted_count' >= inserted_count /\ total_count' >= total_count]_vars

(***************************************************************************)
(* C12.  In per_file mode the rows of a file are written only to the       *)
(* collection named by the file's base name without its extension, and the *)
(* dedup lookup reads that collection only, so a url_id that two files     *)
(* share is inserted once into the collection of each.  With a.csv holding *)
(* url_ids 1 and 2 and b.csv holding url_id 1, a full run over empty       *)
(* collections leaves 2 documents in a, 1 in b, total_count = 3 and        *)
(* inserted_count = 3.                                                     *)
(***************************************************************************)
\* the collection the file of a key names in per_file mode
file_collection(key) == splitext_root(basename(key))

\* the documents the rows of a listed object make
documents_of(o) ==
    IF EndsWith(o.Key, CsvSuffix) /\ Decodable(o.Body)
    THEN {doc_of(csv_rows(o.Body)[n]) :
             n \in {m \in 1..Len(csv_rows(o.Body)) : ~malformed(csv_rows(o.Body)[m])}}
    ELSE {}

\* every stored document comes from a row of the file its collection names
C12_OwnCollectionOnly ==
    MODE = "per_file" =>
        \A c \in Collections : \A d \in BagToSet(db[c]) :
            \E n \in 1..Len(bucket) :
                file_collection(bucket[n].Key) = c /\ d \in documents_of(bucket[n])

\* the first run over the bucket of two files has returned
first_run_of_two_files ==
    /\ MODE = "per_file"
    /\ bucket = two_files
    /\ thr[1].pc = "done"
    /\ thr[2].pc = "unborn"

C12_Example ==
    first_run_of_two_files =>
        /\ db[<<"a">>] = SetToBag({doc_of(<<<<"1">>, <<"x">>>>),
                                  doc_of(<<<<"2">>, <<"y">>>>)})
        /\ db[<<"b">>] = SetToBag({doc_of(<<<<"1">>, <<"z">>>>)})
        /\ total_count = 3
        /\ inserted_count = 3

\* the lookup answers from the file's own collection; the insert adds the
\* row's document to that collection and changes no other
C12_ScopedSteps ==
    \A t \in Threads :
        MODE = "per_file" =>
            LET r == thr[t]
                own == file_collection(r.csv_files[r.k])
            IN  /\ find(t) =>
                     (thr'[t].pc = "insert" <=> copies_of(db[own], r.rows[r.i][1]) = 0)
                /\ insert(t) =>
                     /\ db'[own] = db[own] (+) SetToBag({doc_of(r.rows[r.i])})
                     /\ \A c \in Collections \ {own} : db'[c] = db[c]

C12_PerFileScoping ==
    /\ [](C12_OwnCollectionOnly /\ C12_Example)
    /\ [][C12_ScopedSteps]_vars

\* the shared url_id 1 is in both collections once, after a full run
C12_Witness ==
    /\ first_run_of_two_files
    /\ copies_of(db[<<"a">>], <<"1">>) = 1
    /\ copies_of(db[<<"b">>], <<"1">>) = 1

(***************************************************************************)
(* C13.  Every /stats response reports a combination of inserted_count,    *)
(* total_count and job_running that the globals held together at one       *)
(* single instant before the response.                                     *)
(*                                                                         *)
(* Violated: stats() reads the three globals one after the other without   *)
(* the lock, and the run loop writes between the reads.                    *)
(***************************************************************************)
\* the combination the response being sent reports
reported == <<stats_view.inserted, stats_view.total, job_running>>

C13_StatsSnapshot == [][stats_respond => reported \in held]_vars

(***************************************************************************)
(* C14.  Every write to inserted_count or total_count is performed while   *)
(* the writing thread holds the lock.  The writes of the code are the      *)
(* store of total_count += len(rows) and inserted_count += 1; no statement *)
(* resets a counter.                                                       *)
(*                                                                         *)
(* Violated: total_count += len(rows) (line 97) is outside any `with       *)
(* lock`.                                                                  *)
(***************************************************************************)
C14_WritesUnderLock ==
    [][ \A t \in Threads : (count_store(t) \/ incr(t)) => lock = t ]_vars

(***************************************************************************)
(* C15.  Every run that /start spawns ends by setting job_running back to  *)
(* False: after the last file, or after a listing, download, parse or row  *)
(* failure.  No run-loop thread ends in any other way.  (Every step of a   *)
(* thread either returns or raises and, the lock being held for one        *)
(* increment only, is never blocked for good: a thread that has not ended  *)
(* can always take a further step.)                                        *)
(*                                                                         *)
(* Violated in upload_from_space1.py: an exception of list_objects_v2,     *)
(* get_object or decode is caught nowhere and ends the thread with         *)
(* job_running still True.                                                 *)
(***************************************************************************)
C15_RunEndsIdle == \A t \in Threads : thr[t].pc # "died"

(***************************************************************************)
(* C16.  While job_running is False no step changes inserted_count or      *)
(* total_count: the counters are frozen until the next run has set         *)
(* job_running.                                                            *)
(*                                                                         *)
(* Violated: /stop sets job_running = False and the loop, which never      *)
(* reads the flag, goes on counting and inserting (C2).                    *)
(***************************************************************************)
C16_IdleFreezesCounters ==
    [][~job_running => UNCHANGED <<inserted_count, total_count>>]_vars

(***************************************************************************)
(* C17.  In every reachable state inserted_count <= total_count, under any *)
(* interleaving of run-loop steps and handler calls.                       *)
(***************************************************************************)
C17_InsertedAtMostTotal == inserted_count <= total_count

(***************************************************************************)
(* C18.  Starting from collections without duplicate keys, no collection   *)
(* ever holds two documents with the same url_id, in per_file and in fixed *)
(* mode, under any interleaving.  Stated for etl_api_runner.py, the script *)
(* that looks a url_id up before it inserts.                               *)
(*                                                                         *)
(* Violated: find_one and insert_one (lines 109-110) are two calls, and    *)
(* the two run loops of C1 can both look up before either inserts.         *)
(* upload_from_space1.py inserts without any lookup (C6).                  *)
(***************************************************************************)
C18_NoDuplicateUrlId ==
    Variant = "etl" =>
        \A c \in Collections : \A d \in BagToSet(db[c]) :
            copies_of(db[c], d.url_id) <= 1

(***************************************************************************)
(* C19.  In a run of etl_api_runner.py with no /stop and no failing        *)
(* backend call, every listed key that ends in .csv is downloaded and      *)
(* handed to insert_csv_from_stream exactly once, in listing order, one    *)
(* file at a time, and no other key is downloaded:                         *)
(*   - the thread enters a file only as the successor of the file it was   *)
(*     in (the first one after the listing), and its csv_files are the     *)
(*     listed keys that end in .csv, in listing order;                     *)
(*   - it leaves a file only when no row of it is left to process;         *)
(*   - the step it takes in "download" fetches csv_files[k], a key that    *)
(*     ends in .csv, and hands the body to the parser;                     *)
(*   - it reaches the code after the loop only from the last file, and     *)
(*     ends nowhere else (an empty listing aside).                         *)
(***************************************************************************)
\* the keys of a listing that end in .csv, in listing order
RECURSIVE csv_keys(_)
csv_keys(contents) ==
    IF contents = <<>> THEN <<>>
    ELSE (IF EndsWith(Head(contents).Key, CsvSuffix) THEN <<Head(contents).Key>>
          ELSE <<>>) \o csv_keys(Tail(contents))

C19_Step(t) ==
    LET r == thr[t]
        q == thr'[t]
    IN  /\ (q.pc = "download" /\ (r.pc # "download" \/ q.k # r.k)) =>
              /\ q.k = r.k + 1
              /\ q.k <= Len(q.csv_files)
              /\ q.csv_files = csv_keys(bucket)
              /\ r.pc \in FilePcs \cup {"list"}
        /\ (r.pc \in FilePcs /\ (q.pc \notin FilePcs \/ q.k # r.k)) =>
              later_documents(r) = {}
        /\ (r.pc = "download" /\ q # r) =>
              /\ EndsWith(r.csv_files[r.k], CsvSuffix)
              /\ IF Decodable(body_of(r.csv_files[r.k]))
                 THEN /\ q.pc = "count_load"
                      /\ q.k = r.k
                      /\ q.rows = csv_rows(body_of(r.csv_files[r.k]))
                 ELSE q = next_file(r)
        /\ (q.pc = "finish" /\ r.pc # "finish") => r.k = Len(r.csv_files)
        /\ (r.pc \in ActivePcs /\ q.pc \notin ActivePcs) =>
              r.pc = "finish" \/ (r.pc = "list" /\ bucket = <<>>)

C19_EveryCsvOnceInOrder ==
    [][Variant = "etl" => \A t \in Threads : C19_Step(t)]_vars

\* the first run over a listing of three .csv keys and one other key is past
\* its last file, and both decodable files have been counted once
C19_Witness ==
    /\ Variant = "etl"
    /\ bucket = <<obj_a, obj_n, obj_x, obj_b>>
    /\ thr[1].pc = "finish"
    /\ thr[2].pc = "unborn"
    /\ Len(thr[1].csv_files) = 3
    /\ total_count = 4

(***************************************************************************)
(* C20.  /stop served while job_running is False has no lasting effect:    *)
(* job_running stays False, the counters, start_time, the lock, the store  *)
(* and the position of every thread are as they were.  A /start served     *)
(* afterwards, job_running being False, creates a thread, and a run loop   *)
(* of etl_api_runner.py never ends at a test of the flag: it leaves the    *)
(* file loop only from the last file of its listing and ends only after    *)
(* the loop or at the listing.                                             *)
(***************************************************************************)
\* where a thread is, without the history of /stop
position(r) == <<r.pc, r.csv_files, r.k, r.rows, r.i, r.loaded>>

C20_Step ==
    /\ (stop_job /\ ~job_running) =>
          /\ ~job_running'
          /\ UNCHANGED <<inserted_count, total_count, start_time, lock, db>>
          /\ \A t \in Threads : position(thr'[t]) = position(thr[t])
    /\ (start_job /\ ~job_running) =>
          /\ resp' = "started"
          /\ \E t \in Threads :
                /\ thr[t].pc = "unborn"
                /\ thr'[t].pc = "start"
                /\ \A u \in Threads \ {t} : thr'[u] = thr[u]
    /\ Variant = "etl" =>
          \A t \in Threads :
              /\ (thr'[t].pc = "finish" /\ thr[t].pc # "finish") =>
                    thr[t].k = Len(thr[t].csv_files)
              /\ (thr[t].pc \in ActivePcs /\ thr'[t].pc \notin ActivePcs) =>
                    thr[t].pc \in {"finish", "list"}

C20_StopWhileIdleIsNoOp == [][C20_Step]_vars

\* /stop has been answered before any thread was created
C20_Witness ==
    /\ resp = "stop signal sent"
    /\ ~job_running
    /\ \A t \in Threads : thr[t].pc = "unborn"

=============================================================================
